---- MODULE Spec2Model ----
(***************************************************************************)
(* Model of memfo's sample store (memfo.TimeMemory.TimeMemory) and of its  *)
(* column selector (memfo.TimeMemory.TimeSlicer), src/memfo/TimeMemory.py. *)
(* and of the part of the main loop (memfo.main.MemFo, src/memfo/main.py)  *)
(* that feeds them: the pan keys, the report interval and its legalizing.  *)
(*                                                                         *)
(* A sample is a record [mono, val]: mono is the '_mono' time key of the   *)
(* info dict, val stands for all its other fields.  The store is newest    *)
(* first, so infos[1] here is infos[0] of the code, and infos[Len(infos)]  *)
(* is infos[-1].                                                           *)
(***************************************************************************)
EXTENDS Integers, Sequences, FiniteSets, TLC

\* ---------------------------------------------------------------- constants

\* TimeMemory.MAX_INFOS (600 in the code) and TimeMemory.RETENTION_SEC
\* (86400 in the code), scaled down so that capacity, pruning and several
\* compression stages are reached within the time horizon of the model.
MAX_INFOS == 4
RETENTION_SEC == 46

COMPRESSION_MULTIPLIERS == <<5, 3, 2, 2, 5, 3, 2, 2, 4, 3, 2, 2, 2, 2>>

\* TimeMemory(memfo, initial_sample_secs=1), as main.py constructs it.
initial_sample_secs == 1

\* ------------------------------------------------------------------- bounds

\* Largest time key passed to append_info.
MaxTime == 17
\* Largest time key of the first sample.
MaxFirst == 1
\* Largest distance of a stale sample behind the stored top.
MaxBack == 1
\* Largest jump of a time key ahead of the stored top.
MaxGap == 5
\* The same two bounds of the long-run specification.
MaxTimeLong == 51
MaxGapLong == 15
\* Largest column budget passed to the selector.
MaxCols == 5
\* Largest time key of the stores the uniform selection is applied to.
MaxMonoVar == 7
\* Largest size of the complete stores, and largest column budget, of the
\* uniform selection on long stores.
MaxWide == 16
MaxWideCols == 15
\* Largest time key of the appends that advance by one second between the
\* fixed-interval selections.
MaxTickTime == 12
\* Largest time key of the appends between the selections of a pinned
\* selector.
MaxPinTime == 47
\* comp_idx above which force_compression is no longer requested.
MaxForced == 2
\* Largest time key of the passes of the main loop with the key 'C'.
MaxForceTime == 24
\* MAX_INFOS and RETENTION_SEC of the stand-alone TimeMemory.
MAX_INFOS_ALONE == 10
RETENTION_SEC_ALONE == 12
\* A time key of the stand-alone store is a whole number of 1/TicksPerSec
\* seconds.
TicksPerSec == 2
\* Largest time key, in seconds, and largest step of the time key, in
\* ticks, of the appends to the stand-alone store.
MaxAloneTime == 16
MaxGapAlone == 12
\* Largest time key, in seconds, of the appends between the stand-alone
\* selections.
MaxNearTime == 4
\* Largest column budget and largest interval_samples of the stand-alone
\* selections.
MaxAloneCols == 3
MaxIntervalAlone == 2
\* Largest time key, in seconds, and widest terminal, in columns, of the
\* demo of the stand-alone file.
MaxDemoTime == 11
MaxDemoCols == 4
\* Largest number of pan commands waiting in horizontal_moves.
MaxMoves == 2
\* Largest interval_secs passed to get_fixed_slices, in quanta.
MaxStep == 2
\* Largest number of samples behind the newest one in the stores the
\* fixed-interval selection is applied to.
MaxFixedSamples == 5
\* Largest column budget passed to get_fixed_slices.
MaxFixedCols == 3
\* Largest number of compressions behind the program when it is looked at.
MaxStage == 9
\* Largest number of seconds the program is followed for.
MaxTicks == 2

\* Field values of a sample (everything but its time key).
Vals == {0, 1}

VARIABLES
    infos,      \* TimeMemory.infos, newest first
    info_secs,  \* TimeMemory.info_secs, the quantum
    comp_idx,   \* TimeMemory.comp_idx
    state,      \* TimeMemory.state, the diagnostic outcome of the last append
    op,         \* the operation that ran last
    arg,        \* its arguments
    ret,        \* the return value of the last append_info call
    slices,     \* the list the last selection returned
    err,        \* the exception the last operation raised, "" if none
    log,        \* what the last append_info call did, step by step
    max_mono,   \* greatest time key ever passed to append_info
    tack,       \* TimeSlicer.tack, the pin of the fixed-interval selection
    horizontal_moves,      \* TimeSlicer.horizontal_moves, the pending moves
    call,       \* what the last get_fixed_slices call computed on its way
    report_interval,       \* MemFo.opts.report_interval
    prev_report_interval,  \* MemFo.prev_report_interval
    force_compression,     \* MemFo.opts.force_compression
    info_base_num,         \* src/TimeMemory.py: TimeMemory.info_base_num
    last_complete_sample_index,   \* src/TimeMemory.py: TimeSlicer's
    historical_slices      \* src/TimeMemory.py: TimeSlicer's

vars == <<infos, info_secs, comp_idx, state, op, arg, ret, slices, err, log,
          max_mono, tack, horizontal_moves, call, report_interval,
          prev_report_interval, force_compression, info_base_num,
          last_complete_sample_index, historical_slices>>

\* ------------------------------------------------------------------ helpers

Max(a, b) == IF a >= b THEN a ELSE b

Min(a, b) == IF a <= b THEN a ELSE b

Reverse(s) == [i \in 1..Len(s) |-> s[Len(s) + 1 - i]]

\* One entry of log: ev names the step, s the sample it handled; secs, idx
\* and n are info_secs, comp_idx and len(infos) before the step, secs2, idx2
\* and n2 the same after it.
Event(ev, s, st, st2) ==
    [ev |-> ev, s |-> s,
     secs |-> st.info_secs, idx |-> st.comp_idx, n |-> Len(st.infos),
     secs2 |-> st2.info_secs, idx2 |-> st2.comp_idx, n2 |-> Len(st2.infos)]

\* st2 with the step from st to st2 added to its log.
Logged(ev, s, st, st2) == [st2 EXCEPT !.log = Append(@, Event(ev, s, st, st2))]

NoArg == [info |-> [mono |-> 0, val |-> 0], force |-> FALSE, n |-> 0]

\* ------------------------------------------------------------- append_info

get_fake_info(info, mono) == [info EXCEPT !.mono = mono]

\* Mutant of IsInPast: the stale check is missing.
IsInPastNever(this_mono, top_mono) == FALSE

\* this_mono < top_mono
IsInPast(this_mono, top_mono) == this_mono < top_mono

\* Mutant of IsSameMono: the same-key check is missing.
IsSameMonoNever(this_mono, top_mono) == FALSE

\* this_mono == top_mono
IsSameMono(this_mono, top_mono) == this_mono = top_mono

\* Mutant of IsOverwrite: the top sample is never inside its bucket.
IsOverwriteNever(top_mono, secs) == FALSE

\* top_mono % self.info_secs != 0 : the top sample is inside its bucket
IsOverwrite(top_mono, secs) == top_mono % secs # 0

\* Mutant of NeedsCompression: the store is compressed when it is full.
NeedsCompressionAtCapacity(n, force) == n >= MAX_INFOS \/ force

\* len(self.infos) > self.MAX_INFOS or force_compression
NeedsCompression(n, force) == n > MAX_INFOS \/ force

\* Mutant of Factor: the multiplier of the next stage is taken.
FactorOfNextStage(idx) ==
    COMPRESSION_MULTIPLIERS[((idx + 1) % Len(COMPRESSION_MULTIPLIERS)) + 1]

\* COMPRESSION_MULTIPLIERS[self.comp_idx % len(COMPRESSION_MULTIPLIERS)]
Factor(idx) ==
    COMPRESSION_MULTIPLIERS[(idx % Len(COMPRESSION_MULTIPLIERS)) + 1]

\* while len(self.infos) > MAX_INFOS and self.infos:
\*     if self.infos[-1]['_mono'] >= cutoff_time: break
\*     del self.infos[-1]
RECURSIVE Prune(_, _)
Prune(st, cutoff_time) ==
    IF Len(st.infos) > MAX_INFOS /\ st.infos # <<>>
       /\ ~(st.infos[Len(st.infos)].mono >= cutoff_time)
    THEN Prune(Logged("prune", st.infos[Len(st.infos)], st,
                      [st EXCEPT !.infos = SubSeq(@, 1, Len(@) - 1)]),
               cutoff_time)
    ELSE st

\* self.info_secs *= factor
\* self.infos = self.infos[:1] + [i for i in self.infos[1:]
\*                                if i['_mono'] % self.info_secs == 0]
\* self.comp_idx += 1
Compress(st) ==
    LET secs == st.info_secs * Factor(st.comp_idx)
        Keep(i) == i.mono % secs = 0
    IN  Logged("compress", st.infos[1], st,
               [st EXCEPT
                  !.info_secs = secs,
                  !.infos = SubSeq(st.infos, 1, 1)
                            \o SelectSeq(Tail(st.infos), Keep),
                  !.comp_idx = @ + 1])

\* Mutant of Grow: self.infos.append(info) in place of insert(0, info).
GrowAtTail(st, info, force, hole) ==
    LET ins == Logged("insert", info, st,
                      [st EXCEPT !.state = hole \o "grow",
                                 !.infos = @ \o <<info>>])
        pruned == Prune(ins, info.mono - RETENTION_SEC)
    IN  IF NeedsCompression(Len(pruned.infos), force)
        THEN [Compress(pruned) EXCEPT !.ret = TRUE]
        ELSE [pruned EXCEPT !.ret = FALSE]

\* Steps 5 (insert), 6 and 7 of append_info.
Grow(st, info, force, hole) ==
    LET ins == Logged("insert", info, st,
                      [st EXCEPT !.state = hole \o "grow",
                                 !.infos = <<info>> \o @])
        pruned == Prune(ins, info.mono - RETENTION_SEC)
    IN  IF NeedsCompression(Len(pruned.infos), force)
        THEN [Compress(pruned) EXCEPT !.ret = TRUE]
        ELSE [pruned EXCEPT !.ret = FALSE]

\* Steps 3 (ev = "same") and 5 (ev = "overwrite") of append_info:
\* self.infos[0] = info
Reuse(st, info, hole, ev) ==
    Logged(ev, info, st,
           [st EXCEPT !.infos[1] = info,
                      !.state = hole \o "reuse",
                      !.ret = FALSE])

RECURSIVE append_info(_, _, _)
RECURSIVE FillHole(_, _, _)

\* Mutant of FillHole: the hole is not filled.
NoFillHole(st, info, top_mono) == st

\* while this_mono > top_mono + 1:
\*     top_mono += 1
\*     if top_mono % self.info_secs != 0: self.infos[0]['_mono'] = top_mono
\*     else: self.append_info(get_fake_info(info, top_mono))
\* The result is the store after the loop; top_mono after the loop is
\* Max(top_mono, this_mono - 1).
FillHole(st, info, top_mono) ==
    IF info.mono > top_mono + 1
    THEN LET next == top_mono + 1
             st1 == [st EXCEPT !.state = "hole-"]
             st2 == IF IsOverwrite(next, st1.info_secs)
                    THEN Logged("retime", [st1.infos[1] EXCEPT !.mono = next],
                                st1, [st1 EXCEPT !.infos[1].mono = next])
                    ELSE append_info(
                            Logged("fake", get_fake_info(info, next), st1, st1),
                            get_fake_info(info, next), FALSE)
         IN  FillHole(st2, info, next)
    ELSE st

append_info(st, info, force) ==
    IF st.infos = <<>>
    THEN Logged("first", info, st,
                [st EXCEPT !.infos = <<info>>, !.comp_idx = 0,
                           !.state = "init", !.ret = FALSE])
    ELSE LET this_mono == info.mono
             top_mono == st.infos[1].mono
         IN  IF IsInPast(this_mono, top_mono)
             THEN [st EXCEPT !.state = "in-past", !.ret = FALSE]
             ELSE IF IsSameMono(this_mono, top_mono)
             THEN Reuse(st, info, "", "same")
             ELSE LET filled == FillHole(st, info, top_mono)
                      hole == IF this_mono > top_mono + 1 THEN "hole-" ELSE ""
                      last_mono == Max(top_mono, this_mono - 1)
                  IN  IF IsOverwrite(last_mono, filled.info_secs)
                      THEN Reuse(filled, info, hole, "overwrite")
                      ELSE Grow(filled, info, force, hole)

\* --------------------------------------------------------- get_var_slices

\* p / q for p >= 0, q > 0, rounded to the nearest integer, a tie to the even
\* neighbour as Python's round does.
RoundHalfEven(p, q) ==
    LET f == p \div q
        r == 2 * (p % q)
    IN  IF r > q THEN f + 1
        ELSE IF r < q THEN f
        ELSE IF f % 2 = 0 THEN f ELSE f + 1

\* Mutant of VarIndex: spread = (total_history_count-1) / max_col_cnt.
VarIndexShort(k, total_history_count, max_col_cnt) ==
    RoundHalfEven(k * (total_history_count - 1), max_col_cnt)

\* Python floats are IEEE doubles.  A double x with 1 <= x < 2^26 (or x = 0)
\* is a multiple of 2^-52; it is held as [i, fh, fl] with
\* x = i + fh / 2^26 + fl / 2^52 and 0 <= fh, fl < 2^26.
FracBase == 2 ^ 26

FloatZero == [i |-> 0, fh |-> 0, fl |-> 0]

\* The exponent of a double with integer part i >= 1.
RECURSIVE FloatExp(_)
FloatExp(i) == IF i < 2 THEN 0 ELSE 1 + FloatExp(i \div 2)

\* Carries out of fl and fh.
FloatNorm(i, fh, fl) ==
    LET fh2 == fh + (fl \div FracBase)
    IN  [i |-> i + (fh2 \div FracBase), fh |-> fh2 % FracBase,
         fl |-> fl % FracBase]

\* The double nearest to x + (num / den) * 2^-52, 0 <= num < den: 53
\* significant bits are kept, a tie goes to the even mantissa.
FloatRound(x, num, den) ==
    LET p == 2 ^ FloatExp(x.i)
        q == x.fl \div p
        r == x.fl % p
        lhs == 2 * (r * den + num)
        rhs == p * den
        up == lhs > rhs \/ (lhs = rhs /\ q % 2 = 1)
    IN  FloatNorm(x.i, x.fh, (q + (IF up THEN 1 ELSE 0)) * p)

\* The float a / d for integers a >= d >= 1.
FloatDiv(a, d) ==
    LET r0 == a % d
        r1 == (r0 * FracBase) % d
        r2 == (r1 * FracBase) % d
    IN  FloatRound([i |-> a \div d, fh |-> (r0 * FracBase) \div d,
                    fl |-> (r1 * FracBase) \div d], r2, d)

\* The float x + y.
FloatAdd(x, y) == FloatRound(FloatNorm(x.i + y.i, x.fh + y.fh, x.fl + y.fl), 0, 1)

\* int(round(x))
FloatRint(x) ==
    LET half == FracBase \div 2
    IN  IF x.fh > half \/ (x.fh = half /\ x.fl > 0) THEN x.i + 1
        ELSE IF x.fh = half /\ x.fl = 0 THEN x.i + (x.i % 2)
        ELSE x.i

\* where in the k-th pass of the loop (k = 0, 1, ...): 0, then where += spread
\* once for each earlier pass.
RECURSIVE where(_, _)
where(k, spread) ==
    IF k = 0 THEN FloatZero
    ELSE CHOOSE r \in {FloatAdd(w, spread) : w \in {where(k - 1, spread)}} : TRUE

\* index = int(round(where)) in the k-th pass of the loop (k = 0, 1, ...),
\* spread = (total_history_count-1) / (max_col_cnt-1)
VarIndex(k, total_history_count, max_col_cnt) ==
    CHOOSE index \in
        {FloatRint(w) :
           w \in {where(k, spread) :
                    spread \in {FloatDiv(total_history_count - 1,
                                         max_col_cnt - 1)}}} : TRUE

\* (total_history_count-1) / (max_col_cnt-1) raises ZeroDivisionError
VarRaises(fs, max_col_cnt) == Len(fs) > max_col_cnt /\ max_col_cnt = 1

\* The list get_var_slices returns when it does not raise.
get_var_slices(fs, max_col_cnt) ==
    IF Len(fs) <= max_col_cnt
    THEN Reverse(fs)
    ELSE Reverse([k \in 1..max_col_cnt |->
                    fs[VarIndex(k - 1, Len(fs), max_col_cnt) + 1]])

\* ------------------------------------------- TimeSlicer.get_fixed_slices

\* self.tack = None: the selector has no pin.
None == [pinned |-> FALSE, idx |-> 0, mono |-> 0]

\* self.tack = copy.copy(ns): the selector is pinned to the column ns.
Pinned(ns) == [pinned |-> TRUE, idx |-> ns.idx, mono |-> ns.mono]

\* SimpleNamespace(idx=idx, mono=mono)
get_col_ns(idx, mono) == [idx |-> idx, mono |-> mono]

\* Python list indexing fs[i] with 0-based i: a negative i counts from the
\* end of the list, an i outside -len..len-1 raises IndexError.
PyIndexOk(fs, i) == i >= 0 - Len(fs) /\ i < Len(fs)

PyIndex(fs, i) == IF i >= 0 THEN fs[i + 1] ELSE fs[Len(fs) + i + 1]

\* Mutant of get_right_col: last_mono = self.history.infos[0]['_mono'].
get_right_col_live(fs, secs, interval_secs) ==
    LET last_mono == fs[1].mono
        mono == last_mono - (last_mono % interval_secs)
    IN  get_col_ns(1 + (last_mono - mono) \div secs, mono)

\* The rightmost historical column: the interval boundary at or below the
\* time key of infos[1] of the code (fs[2] here), for a store of two or
\* more samples.
get_right_col(fs, secs, interval_secs) ==
    LET last_mono == fs[2].mono
        mono == last_mono - (last_mono % interval_secs)
    IN  get_col_ns(1 + (last_mono - mono) \div secs, mono)

\* delta_idx = max(1 + ns.count - (max_col_cnt-1), 0)*ns.idx_step_by
DeltaIdx(count, max_col_cnt, idx_step_by) ==
    Max(1 + count - (max_col_cnt - 1), 0) * idx_step_by

\* ns.idx_step_by = interval_secs//info_secs is 0 when interval_secs is less
\* than info_secs, and the division by it raises ZeroDivisionError.
RangeRaises(secs, interval_secs) == interval_secs \div secs = 0

\* The range of the anchor: right_upper the rightmost and right_lower the
\* leftmost position of the right historical column.
get_range_ns(fs, secs, interval_secs, max_col_cnt) ==
    LET right_upper == get_right_col(fs, secs, interval_secs)
        idx_step_by == interval_secs \div secs
        count == (Len(fs) - right_upper.idx) \div idx_step_by
        delta_idx == DeltaIdx(count, max_col_cnt, idx_step_by)
    IN  [right_upper |-> right_upper,
         idx_step_by |-> idx_step_by,
         count |-> count,
         right_lower |-> get_col_ns(right_upper.idx + delta_idx,
                                    right_upper.mono - delta_idx * secs)]

\* info_idx of the middle branch of legal_tack.
LegalInfoIdx(t, range_ns, interval_secs) ==
    range_ns.right_lower.idx
      - RoundHalfEven(t.mono - range_ns.right_lower.mono, interval_secs)
          * range_ns.idx_step_by

\* legal_tack reads self.history.infos[info_idx] in its middle branch, which
\* raises IndexError for an info_idx outside the list.
LegalTackRaises(t, range_ns, fs, interval_secs) ==
    /\ t.mono < range_ns.right_upper.mono
    /\ t.mono > range_ns.right_lower.mono
    /\ ~PyIndexOk(fs, LegalInfoIdx(t, range_ns, interval_secs))

\* Mutant of legal_tack: the middle branch keeps the index of the pin.
legal_tack_kept(t, range_ns, fs, interval_secs) ==
    IF t.mono >= range_ns.right_upper.mono THEN range_ns.right_upper
    ELSE IF t.mono <= range_ns.right_lower.mono THEN range_ns.right_lower
    ELSE get_col_ns(t.idx, t.mono)

\* The column legal_tack returns when it does not raise.
legal_tack(t, range_ns, fs, interval_secs) ==
    IF t.mono >= range_ns.right_upper.mono THEN range_ns.right_upper
    ELSE IF t.mono <= range_ns.right_lower.mono THEN range_ns.right_lower
    ELSE LET info_idx == LegalInfoIdx(t, range_ns, interval_secs)
         IN  get_col_ns(info_idx, PyIndex(fs, info_idx).mono)

\* The pan commands main.py queues in slicer.horizontal_moves.
Moves == {"[", "]", "<", ">", "{", "}"}

\* delta of the '{' and '}' commands, in report intervals.
PageDelta(fs, idx_step_by) ==
    Max(1, RoundHalfEven(Len(fs), 8) \div idx_step_by)

\* The signed number of report intervals a command moves the anchor to the
\* left; '[' and ']' do not move it by a number of intervals.
MoveLeftBy(move, fs, idx_step_by) ==
    CASE move = "<" -> 1
      [] move = ">" -> 0 - 1
      [] move = "{" -> PageDelta(fs, idx_step_by)
      [] move = "}" -> 0 - PageDelta(fs, idx_step_by)
      [] OTHER -> 0

\* One pass of the while loop of apply_pending_moves on the state ps:
\*   ps.tack      the local variable tack,
\*   ps.ref       which object the local tack is: "lower" after
\*                tack = range_ns.right_lower, "upper" after
\*                tack = range_ns.right_upper, "own" when it is a copy,
\*   ps.range_ns  the range, whose columns the code changes when it changes
\*                tack.idx and tack.mono while tack is one of them,
\*   ps.moves     self.horizontal_moves,
\*   ps.err       the exception raised, "" if none,
\*   ps.anchors   the anchor after each command applied so far.
ApplyMove(ps, fs, interval_secs) ==
    LET move == Head(ps.moves)
        step == ps.range_ns.idx_step_by
        popped == [ps EXCEPT !.moves = Tail(ps.moves)]
        Applied(t, ref, range_ns) ==
            [popped EXCEPT !.tack = t, !.ref = ref, !.range_ns = range_ns,
                           !.anchors = Append(ps.anchors,
                               [move |-> move, idx |-> t.idx, mono |-> t.mono])]
    IN  IF move = "[" THEN
            Applied(ps.range_ns.right_lower, "lower", ps.range_ns)
        ELSE IF move = "]" THEN
            Applied(ps.range_ns.right_upper, "upper", ps.range_ns)
        ELSE
            LET by == MoveLeftBy(move, fs, step)
                moved == get_col_ns(ps.tack.idx + by * step,
                                    ps.tack.mono - by * interval_secs)
                range_ns ==
                    IF ps.ref = "lower"
                    THEN [ps.range_ns EXCEPT !.right_lower = moved]
                    ELSE IF ps.ref = "upper"
                    THEN [ps.range_ns EXCEPT !.right_upper = moved]
                    ELSE ps.range_ns
            IN  IF LegalTackRaises(moved, range_ns, fs, interval_secs)
                THEN [popped EXCEPT !.tack = moved, !.range_ns = range_ns,
                                    !.err = "IndexError"]
                ELSE Applied(legal_tack(moved, range_ns, fs, interval_secs),
                             "own", range_ns)

RECURSIVE ApplyMoves(_, _, _)
\* while self.horizontal_moves: ...
ApplyMoves(ps, fs, interval_secs) ==
    IF ps.moves = <<>> \/ ps.err # "" THEN ps
    ELSE ApplyMoves(ApplyMove(ps, fs, interval_secs), fs, interval_secs)

\* apply_pending_moves(range_ns) for the stored pin self_tack and the queue
\* moves: the state after the last command, or at the exception.
apply_pending_moves(self_tack, moves, range_ns, fs, interval_secs) ==
    LET start == [tack |-> range_ns.right_upper, ref |-> "own",
                  range_ns |-> range_ns, moves |-> moves, err |-> "",
                  anchors |-> <<>>]
    IN  IF ~self_tack.pinned THEN ApplyMoves(start, fs, interval_secs)
        ELSE IF LegalTackRaises(self_tack, range_ns, fs, interval_secs)
        THEN [start EXCEPT !.err = "IndexError"]
        ELSE ApplyMoves(
                 [start EXCEPT !.tack = legal_tack(self_tack, range_ns, fs,
                                                   interval_secs)],
                 fs, interval_secs)

RECURSIVE Columns(_, _, _, _)
\* The samples the loop "for _ in range(max_col_cnt-1)" collects from
\* current_idx on, newest first, with left passes to go.
Columns(fs, current_idx, interval_samples, left) ==
    IF left <= 0 \/ current_idx >= Len(fs) \/ current_idx < 0 THEN <<>>
    ELSE <<fs[current_idx + 1]>>
           \o Columns(fs, current_idx + interval_samples, interval_samples,
                      left - 1)

\* Mutant of OnlyLive: nothing is returned for a store of one sample.
OnlyLiveDropped(fs) == <<>>

\* return [infos[0]] if infos else []
OnlyLive(fs) == IF fs # <<>> THEN <<fs[1]>> ELSE <<>>

\* What a get_fixed_slices call with nothing to apply and nothing to show
\* leaves behind and reports.
NoCall == [range_ns |-> [right_upper |-> get_col_ns(0, 0), idx_step_by |-> 0,
                         count |-> 0, right_lower |-> get_col_ns(0, 0)],
           anchors |-> <<>>, anchor |-> get_col_ns(0, 0), ranged |-> FALSE,
           interval_secs |-> 0, max_col_cnt |-> 0]

\* One call get_fixed_slices(interval_secs, max_col_cnt, is_mode_switch) on
\* the store fs with quantum secs, the pin self_tack and the queue moves:
\*   slices  the list returned, tack and moves  the selector afterwards,
\*   err     the exception raised, "" if none,
\*   call    the range as get_range_ns computed it, the anchor after each
\*           command, the anchor the columns were taken from, and the
\*           interval_secs and max_col_cnt of the call.
get_fixed_slices(self_tack, moves, fs, secs, interval_secs, max_col_cnt, is_mode_switch) ==
    IF Len(fs) < 2 THEN
        [slices |-> OnlyLive(fs),
         tack |-> self_tack, moves |-> moves, err |-> "", call |-> NoCall]
    ELSE IF RangeRaises(secs, interval_secs) THEN
        [slices |-> <<>>, tack |-> self_tack, moves |-> moves,
         err |-> "ZeroDivisionError", call |-> NoCall]
    ELSE
        LET range_ns == get_range_ns(fs, secs, interval_secs, max_col_cnt)
            ps == apply_pending_moves(self_tack, moves, range_ns, fs,
                                      interval_secs)
            done == [range_ns |-> range_ns, anchors |-> ps.anchors,
                     anchor |-> ps.tack, ranged |-> TRUE,
                     interval_secs |-> interval_secs,
                     max_col_cnt |-> max_col_cnt]
        IN  IF ps.err # "" THEN
                [slices |-> <<>>, tack |-> self_tack, moves |-> ps.moves,
                 err |-> ps.err, call |-> done]
            ELSE
                [slices |-> Reverse(Columns(fs, ps.tack.idx,
                                            interval_secs \div secs,
                                            max_col_cnt - 1)) \o <<fs[1]>>,
                 tack |-> IF ps.tack.idx = ps.range_ns.right_upper.idx
                          THEN None ELSE Pinned(ps.tack),
                 moves |-> ps.moves, err |-> "", call |-> done]

\* --------------------------------------- MemFo.legalize_report_interval

\* MemFo.report_intervals, in the order of the dict.
report_intervals ==
    << [name |-> "Var", secs |-> 0], [name |-> "5s", secs |-> 5],
       [name |-> "15s", secs |-> 15], [name |-> "30s", secs |-> 30],
       [name |-> "1m", secs |-> 60], [name |-> "5m", secs |-> 300],
       [name |-> "15m", secs |-> 900], [name |-> "1hr", secs |-> 3600] >>

\* report_intervals.keys()
IntervalNames == {report_intervals[i].name : i \in DOMAIN report_intervals}

\* report_intervals[name] for a key of the dict
IntervalSecs(name) ==
    report_intervals[CHOOSE i \in DOMAIN report_intervals :
                        report_intervals[i].name = name].secs

RECURSIVE LeastLegal(_, _, _)
\* The loop over reversed(self.report_intervals.keys()), about to look at the
\* i-th key, with opts.report_interval being name; it breaks at the first
\* interval below hist_secs.
LeastLegal(i, name, hist_secs) ==
    IF i = 0 \/ report_intervals[i].secs < hist_secs THEN name
    ELSE LeastLegal(i - 1, report_intervals[i].name, hist_secs)

\* opts.report_interval after legalize_report_interval(), from its value
\* name before the call and history.info_secs.
legalize_report_interval(name, hist_secs) ==
    IF name \notin IntervalNames \/ IntervalSecs(name) = 0 THEN "Var"
    ELSE IF IntervalSecs(name) >= hist_secs THEN name
    ELSE LeastLegal(Len(report_intervals), name, hist_secs)

\* ------------------------------------------------------------------ actions

Store == [infos |-> infos, info_secs |-> info_secs, comp_idx |-> comp_idx,
          state |-> state, ret |-> FALSE, log |-> <<>>]

\* One top-level call self.history.append_info(info, force_compression).
DoAppend(info, force) ==
    LET st == append_info(Store, info, force)
    IN  /\ infos' = st.infos
        /\ info_secs' = st.info_secs
        /\ comp_idx' = st.comp_idx
        /\ state' = st.state
        /\ ret' = st.ret
        /\ log' = st.log
        /\ op' = "append"
        /\ arg' = [info |-> info, force |-> force, n |-> 0]
        /\ max_mono' = Max(max_mono, info.mono)
        /\ slices' = <<>>
        /\ err' = ""
        /\ UNCHANGED <<tack, horizontal_moves, call, report_interval,
                       prev_report_interval, force_compression, info_base_num,
          last_complete_sample_index, historical_slices>>

\* force_compression is requested only while comp_idx < MaxForced.
Forces(allowed) == IF allowed /\ comp_idx < MaxForced THEN BOOLEAN ELSE {FALSE}

\* The first sample.
AppendFirst(vals, forced) ==
    /\ infos = <<>>
    /\ \E m \in 0..MaxFirst, v \in vals, f \in Forces(forced) :
          DoAppend([mono |-> m, val |-> v], f)

\* A sample older than the stored top.
AppendStale(vals) ==
    /\ infos # <<>>
    /\ \E m \in Max(0, infos[1].mono - MaxBack)..(infos[1].mono - 1),
          v \in vals, f \in BOOLEAN :
          DoAppend([mono |-> m, val |-> v], f)

\* A sample with the time key of the stored top.
AppendSame(vals) ==
    /\ infos # <<>>
    /\ \E v \in vals, f \in BOOLEAN :
          DoAppend([mono |-> infos[1].mono, val |-> v], f)

\* The sample of the next second.
AppendNext(vals, forced, max_time) ==
    /\ infos # <<>>
    /\ infos[1].mono + 1 <= max_time
    /\ \E v \in vals, f \in Forces(forced) :
          DoAppend([mono |-> infos[1].mono + 1, val |-> v], f)

\* A sample that skips one or more seconds.
AppendGap(vals, forced, max_time, max_gap) ==
    /\ infos # <<>>
    /\ \E m \in (infos[1].mono + 2)..Min(max_time, infos[1].mono + max_gap),
          v \in vals, f \in Forces(forced) :
          DoAppend([mono |-> m, val |-> v], f)

\* One call self.slicer.get_var_slices(max_col_cnt).
\* slicer.get_var_slices(max_col_cnt) as update_report_data calls it.
DoVar(max_col_cnt) ==
    /\ op' = "var"
    /\ arg' = [NoArg EXCEPT !.n = max_col_cnt]
    /\ IF VarRaises(infos, max_col_cnt)
       THEN slices' = <<>> /\ err' = "ZeroDivisionError"
       ELSE slices' = get_var_slices(infos, max_col_cnt) /\ err' = ""
    /\ call' = NoCall
    /\ UNCHANGED <<infos, info_secs, comp_idx, state, ret, log, max_mono>>
    /\ UNCHANGED <<tack, horizontal_moves, report_interval,
                   prev_report_interval, force_compression, info_base_num,
          last_complete_sample_index, historical_slices>>

SelectVar == \E n \in 1..MaxCols : DoVar(n)

\* The uniform selection with a column budget of up to MaxWideCols.
SelectVarWide == \E n \in 1..MaxWideCols : DoVar(n)

\* A pan key: main.py appends its command to slicer.horizontal_moves.
\* arg.n counts the commands queued since the uniform selection was last on
\* display with no selection after it.
Pan ==
    /\ Len(horizontal_moves) < MaxMoves
    /\ \E move \in Moves :
          horizontal_moves' = Append(horizontal_moves, move)
    /\ op' = "pan"
    /\ arg' = [NoArg EXCEPT !.n = IF op = "var" THEN 1
                                  ELSE IF op = "pan" /\ arg.n > 0
                                  THEN arg.n + 1 ELSE 0]
    /\ slices' = <<>>
    /\ err' = ""
    /\ call' = NoCall
    /\ UNCHANGED <<infos, info_secs, comp_idx, state, ret, log, max_mono,
                   tack, report_interval, prev_report_interval,
                   force_compression, info_base_num,
                   last_complete_sample_index, historical_slices>>

\* The selector part of one call
\* self.slicer.get_fixed_slices(interval_secs, max_col_cnt, is_mode_switch).
DoFixed(interval_secs, max_col_cnt, is_mode_switch) ==
    \E r \in {get_fixed_slices(tack, horizontal_moves, infos, info_secs,
                                interval_secs, max_col_cnt, is_mode_switch)} :
        /\ slices' = r.slices
        /\ tack' = r.tack
        /\ horizontal_moves' = r.moves
        /\ err' = r.err
        /\ call' = r.call
        /\ op' = "fixed"
        /\ arg' = [info |-> NoArg.info, force |-> FALSE, n |-> max_col_cnt,
                   interval_secs |-> interval_secs,
                   is_mode_switch |-> is_mode_switch]

\* One call of get_fixed_slices with an interval_secs that is a positive
\* multiple of info_secs.
SelectFixed ==
    /\ \E m \in 1..MaxStep, n \in 1..MaxFixedCols, sw \in BOOLEAN :
          DoFixed(m * info_secs, n, sw)
    /\ UNCHANGED <<infos, info_secs, comp_idx, state, ret, log, max_mono,
                   report_interval, prev_report_interval,
                   force_compression, info_base_num,
                   last_complete_sample_index, historical_slices>>

Init ==
    /\ infos = <<>>
    /\ info_secs = initial_sample_secs
    /\ comp_idx = 0
    /\ state = "n/a"
    /\ op = "init"
    /\ arg = NoArg
    /\ ret = FALSE
    /\ slices = <<>>
    /\ err = ""
    /\ log = <<>>
    /\ max_mono = 0
    /\ tack = None
    /\ horizontal_moves = <<>>
    /\ call = NoCall
    /\ report_interval = "Var"
    /\ prev_report_interval = "None"
    /\ force_compression = FALSE
    /\ info_base_num = 0
    /\ last_complete_sample_index = 0
    /\ historical_slices = <<>>

\* Every kind of append, with and without force_compression.
Next ==
    \/ AppendFirst(Vals, TRUE)
    \/ AppendStale(Vals)
    \/ AppendSame(Vals)
    \/ AppendNext(Vals, TRUE, MaxTime)
    \/ AppendGap(Vals, TRUE, MaxTime, MaxGap)

Spec == Init /\ [][Next]_vars

\* Appends with strictly increasing time keys only, without
\* force_compression, over a longer time and with one field value.
NextLong ==
    \/ AppendFirst({0}, FALSE)
    \/ AppendNext({0}, FALSE, MaxTimeLong)
    \/ AppendGap({0}, FALSE, MaxTimeLong, MaxGapLong)

SpecLong == Init /\ [][NextLong]_vars

\* The newest-first store holding one sample for each time key of S.
RECURSIVE StoreOf(_)
StoreOf(S) ==
    IF S = {} THEN <<>>
    ELSE LET m == CHOOSE x \in S : \A y \in S : y <= x
         IN  <<[mono |-> m, val |-> 0]>> \o StoreOf(S \ {m})

\* The uniform selection applied to every newest-first store with time keys
\* in 0..MaxMonoVar.
InitVar ==
    /\ \E S \in SUBSET (0..MaxMonoVar) : infos = StoreOf(S)
    /\ info_secs = initial_sample_secs
    /\ comp_idx = 0
    /\ state = "n/a"
    /\ op = "init"
    /\ arg = NoArg
    /\ ret = FALSE
    /\ slices = <<>>
    /\ err = ""
    /\ log = <<>>
    /\ max_mono = 0
    /\ tack = None
    /\ horizontal_moves = <<>>
    /\ call = NoCall
    /\ report_interval = "Var"
    /\ prev_report_interval = "None"
    /\ force_compression = FALSE
    /\ info_base_num = 0
    /\ last_complete_sample_index = 0
    /\ historical_slices = <<>>

NextVar == SelectVar

SpecVar == InitVar /\ [][NextVar]_vars

\* The uniform selection applied to the complete stores of the seconds
\* 0..n-1, n up to MaxWide, with budgets up to MaxWideCols.
InitVarWide ==
    /\ \E n \in 0..MaxWide : infos = StoreOf(0..(n - 1))
    /\ info_secs = initial_sample_secs
    /\ comp_idx = 0
    /\ state = "n/a"
    /\ op = "init"
    /\ arg = NoArg
    /\ ret = FALSE
    /\ slices = <<>>
    /\ err = ""
    /\ log = <<>>
    /\ max_mono = 0
    /\ tack = None
    /\ horizontal_moves = <<>>
    /\ call = NoCall
    /\ report_interval = "Var"
    /\ prev_report_interval = "None"
    /\ force_compression = FALSE
    /\ info_base_num = 0
    /\ last_complete_sample_index = 0
    /\ historical_slices = <<>>

NextVarWide == SelectVarWide

SpecVarWide == InitVarWide /\ [][NextVarWide]_vars

\* Regular ticks: every sample has the time key of the stored top or the
\* next second, with and without force_compression.
NextRegular ==
    \/ AppendFirst({0}, TRUE)
    \/ AppendSame({0})
    \/ AppendNext({0}, TRUE, MaxTimeLong)

SpecRegular == Init /\ [][NextRegular]_vars

\* The main loop's order without the keyboard: samples whose time keys
\* advance by exactly one second, with and without force_compression, and
\* fixed-interval selections between them.
NextTick ==
    \/ AppendFirst({0}, TRUE)
    \/ AppendNext({0}, TRUE, MaxTickTime)
    \/ SelectFixed

SpecTick == Init /\ [][NextTick]_vars

\* One call of get_fixed_slices as update_report_data makes it while the
\* report interval stays the same (is_mode_switch is False), with room for
\* a historical column.
SelectSame ==
    /\ \E m \in 1..MaxStep, n \in 2..MaxFixedCols : DoFixed(m * info_secs, n, FALSE)
    /\ UNCHANGED <<infos, info_secs, comp_idx, state, ret, log, max_mono,
                   report_interval, prev_report_interval,
                   force_compression, info_base_num,
                   last_complete_sample_index, historical_slices>>

\* A pan key pressed while no command is pending.
PanOnce == horizontal_moves = <<>> /\ Pan

\* The main loop's order with the pan keys: samples of consecutive seconds
\* without force_compression, one pan command at a time, and fixed-interval
\* selections with two or more columns.
NextPin ==
    \/ AppendFirst({0}, FALSE)
    \/ AppendNext({0}, FALSE, MaxPinTime)
    \/ PanOnce
    \/ SelectSame

SpecPin == Init /\ [][NextPin]_vars

\* The store after the samples of the seconds first..first+n at quantum
\* secs: the newest sample, then one sample every secs seconds.
StoreAt(secs, first, n) ==
    [i \in 1..(n + 1) |->
        [mono |-> IF i = 1 THEN first + secs * (n - 1) + 1
                  ELSE first + secs * (n + 1 - i),
         val |-> 0]]

\* The selector, newly constructed, on a store that appends can build: the
\* empty store, the store of one sample, the complete store of the seconds
\* first..first+n at quantum 1, and the store that a forced compression at
\* second 1 and later appends build at quantum 5.
InitFixed ==
    /\ \/ infos = <<>> /\ info_secs = initial_sample_secs /\ comp_idx = 0
       \/ \E first \in 0..MaxFirst :
             /\ infos = <<[mono |-> first, val |-> 0]>>
             /\ info_secs = initial_sample_secs /\ comp_idx = 0
       \/ \E first \in 0..MaxFirst, n \in 1..MaxFixedSamples :
             /\ infos = StoreAt(initial_sample_secs, first, n)
             /\ info_secs = initial_sample_secs /\ comp_idx = 0
       \/ \E n \in 1..MaxFixedSamples :
             /\ infos = StoreAt(Factor(0), 0, n)
             /\ info_secs = initial_sample_secs * Factor(0) /\ comp_idx = 1
    /\ state = "n/a"
    /\ op = "init"
    /\ arg = NoArg
    /\ ret = FALSE
    /\ slices = <<>>
    /\ err = ""
    /\ log = <<>>
    /\ max_mono = IF infos = <<>> THEN 0 ELSE infos[1].mono
    /\ tack = None
    /\ horizontal_moves = <<>>
    /\ call = NoCall
    /\ report_interval = "Var"
    /\ prev_report_interval = "None"
    /\ force_compression = FALSE
    /\ info_base_num = 0
    /\ last_complete_sample_index = 0
    /\ historical_slices = <<>>

\* Pan keys and selections in any order on a store that does not change.
NextFixed ==
    \/ Pan
    \/ SelectFixed
    \/ SelectVar

SpecFixed == InitFixed /\ [][NextFixed]_vars

RECURSIVE Quantum(_)
\* info_secs after k compressions.
Quantum(k) ==
    IF k = 0 THEN initial_sample_secs ELSE Quantum(k - 1) * Factor(k - 1)

\* The store right after the k-th compression when force_compression is
\* requested again as soon as a compression is done and a sample arrives
\* every second: the k-th compression happens at the first insert at the
\* quantum before it and leaves the inserted sample and the sample 0.
StageStore(k) ==
    IF k = 0 THEN <<>>
    ELSE <<[mono |-> IF k = 1 THEN 1 ELSE Quantum(k - 1) + 1, val |-> 0],
           [mono |-> 0, val |-> 0]>>

\* The program at its start, or right after its k-th forced compression,
\* with the report interval of the command line ('MiB' is the default of
\* the option parser).
InitMain ==
    /\ \E k \in 0..MaxStage :
          /\ infos = StageStore(k)
          /\ info_secs = Quantum(k)
          /\ comp_idx = k
          /\ state = IF k = 0 THEN "n/a" ELSE "grow"
          /\ ret = (k > 0)
    /\ op = "init"
    /\ arg = NoArg
    /\ slices = <<>>
    /\ err = ""
    /\ log = <<>>
    /\ max_mono = IF infos = <<>> THEN 0 ELSE infos[1].mono
    /\ tack = None
    /\ horizontal_moves = <<>>
    /\ call = NoCall
    /\ report_interval \in IntervalNames \cup {"MiB"}
    /\ prev_report_interval = "None"
    /\ force_compression = FALSE
    /\ info_base_num = 0
    /\ last_complete_sample_index = 0
    /\ historical_slices = <<>>

\* opts.force_compression after a pass of the main loop that found it at
\* flag and whose append_info call returned compressed: the request is
\* dropped by the append that compressed, and by nothing else.
RequestedNever(flag, compressed) == FALSE

Requested(flag, compressed) == flag /\ ~compressed

\* One pass of the main loop, update_report_data(), on the clock mono: the
\* sample is appended, with force_compression when the key 'C' asked for it,
\* the report interval is made legal and the columns are selected for a
\* screen of max_col_cnt columns.  An exception of the selection ends the
\* pass before prev_report_interval is set, and the program.
update_report_data(mono, max_col_cnt) ==
    /\ err = ""
    /\    \E st \in {append_info(Store, [mono |-> mono, val |-> 0],
                                  force_compression)} :
          \E name \in {legalize_report_interval(report_interval,
                                                 st.info_secs)} :
             /\ infos' = st.infos
             /\ info_secs' = st.info_secs
             /\ comp_idx' = st.comp_idx
             /\ state' = st.state
             /\ ret' = st.ret
             /\ log' = st.log
             /\ max_mono' = Max(max_mono, mono)
             /\ force_compression' = Requested(force_compression, st.ret)
             /\ UNCHANGED <<info_base_num, last_complete_sample_index,
                            historical_slices>>
             /\ report_interval' = name
             /\ arg' = [info |-> [mono |-> mono, val |-> 0],
                        force |-> force_compression,
                        n |-> max_col_cnt,
                        interval_secs |-> IntervalSecs(name),
                        is_mode_switch |-> (prev_report_interval # name)]
             /\ IF name = "Var"
                THEN /\ op' = "var"
                     /\ IF VarRaises(st.infos, max_col_cnt)
                        THEN slices' = <<>> /\ err' = "ZeroDivisionError"
                        ELSE /\ slices' = get_var_slices(st.infos, max_col_cnt)
                             /\ err' = ""
                     /\ call' = NoCall
                     /\ UNCHANGED <<tack, horizontal_moves>>
                ELSE \E r \in {get_fixed_slices(tack, horizontal_moves,
                                   st.infos, st.info_secs, IntervalSecs(name),
                                   max_col_cnt, prev_report_interval # name)} :
                        /\ op' = "fixed"
                        /\ slices' = r.slices
                        /\ err' = r.err
                        /\ call' = r.call
                        /\ tack' = r.tack
                        /\ horizontal_moves' = r.moves
             /\ prev_report_interval' =
                  IF err' = "" THEN name ELSE prev_report_interval

\* The passes of the main loop on the clock of the same or of the next
\* second, on a screen of 1..MaxFixedCols columns.
Update ==
    \E mono \in (IF infos = <<>> THEN {0}
                 ELSE {m \in {infos[1].mono, infos[1].mono + 1} :
                         m <= max_mono \/ max_mono < MaxTicks
                                        + (IF comp_idx = 0 THEN 0
                                           ELSE StageStore(comp_idx)[1].mono)}),
       max_col_cnt \in 1..MaxFixedCols :
       update_report_data(mono, max_col_cnt)

\* The key 'i': the option spinner of the console_window package sets
\* opts.report_interval to one of the keys of report_intervals, and the
\* report interval is made legal.
KeyInterval ==
    /\ err = ""
    /\ \E name \in IntervalNames :
          report_interval' = legalize_report_interval(name, info_secs)
    /\ op' = "key"
    /\ arg' = NoArg
    /\ slices' = <<>>
    /\ err' = ""
    /\ call' = NoCall
    /\ UNCHANGED <<infos, info_secs, comp_idx, state, ret, log, max_mono,
                   tack, horizontal_moves, prev_report_interval,
                   force_compression, info_base_num,
                   last_complete_sample_index, historical_slices>>

NextMain ==
    \/ Update
    \/ KeyInterval

SpecMain == InitMain /\ [][NextMain]_vars

\* The key 'C': opts.force_compression is set.  The key is pressed while
\* comp_idx < MaxForced and while the clock can still reach the second after
\* the next multiple of info_secs.
KeyC ==
    /\ err = ""
    /\ comp_idx < MaxForced
    /\ infos # <<>> => infos[1].mono + info_secs <= MaxForceTime
    /\ force_compression' = TRUE
    /\ op' = "key"
    /\ arg' = NoArg
    /\ slices' = <<>>
    /\ err' = ""
    /\ call' = NoCall
    /\ UNCHANGED <<infos, info_secs, comp_idx, state, ret, log, max_mono,
                   tack, horizontal_moves, report_interval,
                   prev_report_interval, info_base_num,
                   last_complete_sample_index, historical_slices>>

\* The passes of the main loop with the clock advancing by one second from
\* one pass to the next, on a screen of two or more columns.
Tick ==
    \E mono \in {IF infos = <<>> THEN 0 ELSE infos[1].mono + 1},
       max_col_cnt \in 2..MaxFixedCols :
       /\ mono <= MaxForceTime
       /\ update_report_data(mono, max_col_cnt)

NextForce ==
    \/ Tick
    \/ KeyC

SpecForce == Init /\ [][NextForce]_vars

\* loop() calls update_report_data() again after every do_window(): a pass
\* that can be made is made.
SpecForceLive == SpecForce /\ WF_vars(Tick)

\* The same on the stores of fewer than two samples only.
InitShort == InitFixed /\ Len(infos) < 2

SpecShort == InitShort /\ [][NextFixed]_vars

\* ------------------------------------------- src/TimeMemory.py, stand-alone
\* The stand-alone variant keeps one sample per bucket of info_secs seconds
\* and numbers the buckets: infos[0] is meant to be in bucket
\* info_base_num + len(infos) - 1.  Its time keys are floats; here a time key
\* is a whole number of 1/TicksPerSec seconds.

StoreAlone ==
    [infos |-> infos, info_secs |-> info_secs, comp_idx |-> comp_idx,
     info_base_num |-> info_base_num]

\* (info_sample_num, info_num) of _get_info_nums:
\* int(round(info['_mono'])) and info_sample_num // self.info_secs
_get_info_nums(st, info) ==
    LET info_sample_num == RoundHalfEven(info.mono, TicksPerSec)
    IN  <<info_sample_num, info_sample_num \div st.info_secs>>

\* for i in range(missing_count): a deep copy of infos[0] with the time key
\* float(missing_num * self.info_secs) is put on top, for missing_num from
\* num up to last.
RECURSIVE FillGaps(_, _, _)
FillGaps(st, num, last) ==
    IF num > last THEN st
    ELSE FillGaps([st EXCEPT !.infos =
                      <<[st.infos[1] EXCEPT
                           !.mono = num * st.info_secs * TicksPerSec]>> \o @],
                  num + 1, last)

\* while self.infos and self.infos[-1]['_mono'] < cutoff_time:
\*     self.infos.pop(); self.info_base_num += 1
RECURSIVE PruneAlone(_, _)
PruneAlone(st, cutoff_time) ==
    IF st.infos # <<>> /\ st.infos[Len(st.infos)].mono < cutoff_time
    THEN PruneAlone([st EXCEPT
                       !.infos = SubSeq(@, 1, Len(@) - 1),
                       !.info_base_num = @ + 1], cutoff_time)
    ELSE st

\* [self.infos[i] for i in range(0, len(self.infos), factor)]
Stride(fs, factor) ==
    [k \in 1..((Len(fs) + factor - 1) \div factor) |-> fs[(k - 1) * factor + 1]]

\* Step 6 of _append_info: every factor-th sample from the top is kept,
\* info_secs is multiplied and info_base_num is rescaled.
CompressAlone(st) ==
    LET factor == Factor(st.comp_idx)
        secs == st.info_secs * factor
    IN  [st EXCEPT
           !.infos = Stride(@, factor),
           !.info_secs = secs,
           !.comp_idx = @ + 1,
           !.info_base_num = (st.info_base_num * st.info_secs) \div secs]

\* len(self.infos) > self.MAX_INFOS
OverCapacity(st) == Len(st.infos) > MAX_INFOS_ALONE

\* The store after self.history._append_info(info).
_append_info(st, info) ==
    LET new_info_num == _get_info_nums(st, info)[2]
        current_top_num == st.info_base_num + Len(st.infos) - 1
    IN  IF st.infos = <<>>
        THEN [st EXCEPT !.infos = <<info>>,
                        !.info_base_num = new_info_num,
                        !.comp_idx = 0]
        ELSE IF new_info_num = current_top_num
        THEN [st EXCEPT !.infos[1] = info]
        ELSE IF new_info_num < current_top_num
        THEN st
        ELSE LET filled == FillGaps(st, current_top_num + 1, new_info_num - 1)
                 inserted == [filled EXCEPT !.infos = <<info>> \o @]
                 pruned == PruneAlone(inserted,
                               info.mono - RETENTION_SEC_ALONE * TicksPerSec)
             IN  IF OverCapacity(pruned) THEN CompressAlone(pruned)
                 ELSE pruned

\* TimeSlicer.get_var_slices of the stand-alone variant on the store list fs:
\* the list it returns, the store list afterwards and the exception it
\* raises.  With total_history_count <= col_cnt, slices is the store list
\* itself, so slices.reverse() and slices.append() act on the store; two
\* samples are the same object when they are equal.
alone_get_var_slices(fs, max_col_cnt) ==
    LET total_history_count == Len(fs)
        col_cnt == Min(max_col_cnt, total_history_count)
        index(cnt) ==
            IF col_cnt = 1 THEN 0
            ELSE RoundHalfEven(cnt * (total_history_count - 1), col_cnt - 1)
    IN  IF total_history_count <= col_cnt
        THEN IF fs = <<>>
             THEN [slices |-> <<>>, infos |-> fs, err |-> "IndexError"]
             ELSE LET rev == Reverse(fs)
                      all == IF rev[Len(rev)] # rev[1]
                             THEN Append(rev, rev[1]) ELSE rev
                  IN  [slices |-> all, infos |-> all, err |-> ""]
        ELSE [slices |-> Reverse([k \in 1..col_cnt |-> fs[index(k - 1) + 1]]),
              infos |-> fs, err |-> ""]

\* The samples the regeneration of _get_fixed_slices collects, the newest
\* first: infos[current_idx] for current_idx from last_idx on in steps of
\* interval_samples, at most max_col_cnt - 1 of them.
Regenerated(fs, last_idx, interval_samples, max_col_cnt) ==
    LET inside == IF last_idx >= Len(fs) THEN 0
                  ELSE (Len(fs) - 1 - last_idx) \div interval_samples + 1
    IN  [k \in 1..Min(max_col_cnt - 1, inside) |->
           fs[last_idx + (k - 1) * interval_samples + 1]]

\* TimeSlicer._get_fixed_slices of the stand-alone variant: the list it
\* returns and the selector state afterwards.
_get_fixed_slices(fs, last_idx, hist, interval_samples, max_col_cnt, is_mode_switch) ==
    LET total_history_count == Len(fs)
        incomplete_tail_size == total_history_count % interval_samples
        new_complete_index == IF incomplete_tail_size = 0
                              THEN interval_samples - 1
                              ELSE incomplete_tail_size - 1
        should_regenerate == is_mode_switch \/ new_complete_index > last_idx
        last2 == IF should_regenerate THEN new_complete_index ELSE last_idx
        hist2 == IF should_regenerate
                 THEN Reverse(Regenerated(fs, last2, interval_samples,
                                          max_col_cnt))
                 ELSE hist
    IN  IF total_history_count < interval_samples
        THEN [slices |-> IF fs # <<>> THEN <<fs[1]>> ELSE <<>>,
              last_complete_sample_index |-> 0,
              historical_slices |-> <<>>]
        ELSE [slices |-> IF hist2 = <<>> \/ hist2[Len(hist2)] # fs[1]
                         THEN Append(hist2, fs[1]) ELSE hist2,
              last_complete_sample_index |-> last2,
              historical_slices |-> hist2]

\* self.report_intervals.get(self.report_interval, 0) of the stand-alone
\* TimeSlicer
alone_interval_sec(name) ==
    CASE name = "5s" -> 5
      [] name = "1m" -> 60
      [] name = "5m" -> 300
      [] OTHER -> 0

\* One call self.history._append_info(info) of the stand-alone store.
DoAppendAlone(info) ==
    \E st \in {_append_info(StoreAlone, info)} :
       /\ infos' = st.infos
       /\ info_secs' = st.info_secs
       /\ comp_idx' = st.comp_idx
       /\ info_base_num' = st.info_base_num
       /\ op' = "alone_append"
       /\ arg' = [NoArg EXCEPT !.info = info]
       /\ slices' = <<>>
       /\ err' = ""
       /\ UNCHANGED <<state, ret, log, max_mono, tack, horizontal_moves, call,
                      report_interval, prev_report_interval,
                      force_compression, last_complete_sample_index,
                      historical_slices>>

\* The field value of a new sample with the time key mono: _read_info()
\* returns a new object, which differs ('ts') from every sample that the
\* store, below its top, or the selector holds after the append.
FreshVal(mono) ==
    LET after == _append_info(StoreAlone, [mono |-> mono, val |-> 0]).infos
        held == {s \in {after[i] : i \in 2..Len(after)}
                        \cup {historical_slices[i] :
                                i \in 1..Len(historical_slices)} :
                   s.mono = mono}
    IN  CHOOSE v \in 0..Cardinality(held) :
           /\ \A s \in held : s.val # v
           /\ \A w \in 0..(v - 1) : \E s \in held : s.val = w

\* Appends with non-decreasing time keys: the first sample within two
\* seconds of 0, then the key of the top or one up to max_gap ticks later,
\* up to max_time seconds.
AppendAloneBy(max_gap, max_time) ==
    /\ err = ""
    /\ \E mono \in (IF infos = <<>> THEN 0..(2 * TicksPerSec)
                     ELSE infos[1].mono..(infos[1].mono + max_gap)) :
          /\ mono <= max_time * TicksPerSec
          /\ DoAppendAlone([mono |-> mono, val |-> FreshVal(mono)])

AppendAlone == AppendAloneBy(MaxGapAlone, MaxAloneTime)

\* The same with steps of the time key of one second at most, up to
\* MaxNearTime seconds.
AppendAloneNear == AppendAloneBy(TicksPerSec, MaxNearTime)

\* One call get_var_slices(max_col_cnt) of the stand-alone selector.
VarAlone ==
    /\ err = ""
    /\ \E max_col_cnt \in 1..MaxAloneCols :
       \E r \in {alone_get_var_slices(infos, max_col_cnt)} :
          /\ slices' = r.slices
          /\ infos' = r.infos
          /\ err' = r.err
          /\ last_complete_sample_index' = 0
          /\ historical_slices' = <<>>
          /\ op' = "alone_var"
          /\ arg' = [NoArg EXCEPT !.n = max_col_cnt]
    /\ UNCHANGED <<info_secs, comp_idx, info_base_num, state, ret, log,
                   max_mono, tack, horizontal_moves, call, report_interval,
                   prev_report_interval, force_compression>>

\* One call _get_fixed_slices(interval_samples, max_col_cnt,
\* is_mode_switch) of the stand-alone selector.
DoFixedAlone(interval_samples, max_col_cnt, is_mode_switch) ==
    \E r \in {_get_fixed_slices(infos, last_complete_sample_index,
                                historical_slices, interval_samples,
                                max_col_cnt, is_mode_switch)} :
       /\ slices' = r.slices
       /\ last_complete_sample_index' = r.last_complete_sample_index
       /\ historical_slices' = r.historical_slices
       /\ err' = ""
       /\ op' = "alone_fixed"
       /\ arg' = [info |-> NoArg.info, force |-> FALSE, n |-> max_col_cnt,
                  interval_samples |-> interval_samples,
                  is_mode_switch |-> is_mode_switch]
       /\ UNCHANGED <<infos, info_secs, comp_idx, info_base_num, state, ret,
                      log, max_mono, tack, horizontal_moves, call,
                      report_interval, prev_report_interval,
                      force_compression>>

FixedAlone ==
    /\ err = ""
    /\ \E interval_samples \in 1..MaxIntervalAlone,
          max_col_cnt \in 1..MaxAloneCols, is_mode_switch \in BOOLEAN :
          DoFixedAlone(interval_samples, max_col_cnt, is_mode_switch)

\* The stand-alone store under appends only.
NextAloneStore == AppendAlone

SpecAloneStore == Init /\ [][NextAloneStore]_vars

\* The stand-alone store and its selector.
NextAlone ==
    \/ AppendAloneNear
    \/ VarAlone
    \/ FixedAlone

SpecAlone == Init /\ [][NextAlone]_vars

\* mock_update_report_data() with the clock one second after the newest
\* sample (t = 1 for the first), on a terminal of 2..MaxDemoCols columns:
\* the sample is appended and the columns are selected.
mock_update_report_data ==
    /\ err = ""
    /\ \E mono \in {IF infos = <<>> THEN TicksPerSec
                     ELSE infos[1].mono + TicksPerSec},
          val \in Vals, max_col_cnt \in 2..MaxDemoCols :
       \E st \in {_append_info(StoreAlone, [mono |-> mono, val |-> val])} :
          /\ mono <= MaxDemoTime * TicksPerSec
          /\ infos' = st.infos
          /\ info_secs' = st.info_secs
          /\ comp_idx' = st.comp_idx
          /\ info_base_num' = st.info_base_num
          /\ op' = "demo"
          /\ arg' = [info |-> [mono |-> mono, val |-> val], force |-> FALSE,
                     n |-> max_col_cnt,
                     interval_samples |->
                        Max(1, alone_interval_sec(report_interval)),
                     is_mode_switch |->
                        (prev_report_interval # report_interval)]
          /\ prev_report_interval' = report_interval
          /\ IF report_interval = "Var"
                \/ alone_interval_sec(report_interval) = 0
             THEN \E r \in {alone_get_var_slices(st.infos, max_col_cnt)} :
                     /\ slices' = r.slices
                     /\ infos' = r.infos
                     /\ err' = r.err
                     /\ last_complete_sample_index' = 0
                     /\ historical_slices' = <<>>
             ELSE \E r \in {_get_fixed_slices(st.infos,
                               last_complete_sample_index, historical_slices,
                               Max(1, alone_interval_sec(report_interval)),
                               max_col_cnt,
                               prev_report_interval # report_interval)} :
                     /\ slices' = r.slices
                     /\ err' = ""
                     /\ last_complete_sample_index' =
                           r.last_complete_sample_index
                     /\ historical_slices' = r.historical_slices
          /\ UNCHANGED <<state, ret, log, max_mono, tack, horizontal_moves,
                         call, report_interval, force_compression>>

\* The demo of the stand-alone file: TimeSlicer starts with report_interval
\* and prev_report_interval '5s'.
InitDemo ==
    /\ infos = <<>>
    /\ info_secs = 1
    /\ comp_idx = 0
    /\ info_base_num = 0
    /\ last_complete_sample_index = 0
    /\ historical_slices = <<>>
    /\ report_interval = "5s"
    /\ prev_report_interval = "5s"
    /\ state = "n/a"
    /\ op = "init"
    /\ arg = NoArg
    /\ ret = FALSE
    /\ slices = <<>>
    /\ err = ""
    /\ log = <<>>
    /\ max_mono = 0
    /\ tack = None
    /\ horizontal_moves = <<>>
    /\ call = NoCall
    /\ force_compression = FALSE

NextDemo == mock_update_report_data

SpecDemo == InitDemo /\ [][NextDemo]_vars

\* ------------------------------------------------------------------- claims

\* C1: for appends with strictly increasing time keys, after each append
\* every pair of adjacent stored samples, the pair at the head included, has
\* time keys that differ by exactly info_secs.
C1_GapFree ==
    \A i \in 1..(Len(infos) - 1) :
       infos[i].mono - infos[i + 1].mono = info_secs

\* C2: after every top-level append_info call, len(infos) <= MAX_INFOS.
C2_BoundedSize == Len(infos) <= MAX_INFOS

\* C3: appending to a non-empty store a sample whose time key is less than
\* that of infos[0] leaves the stored sequence, info_secs and comp_idx
\* unchanged and raises no error.
C3_StaleRejected ==
    [][(op' = "append" /\ infos # <<>> /\ arg'.info.mono < infos[1].mono)
         => /\ infos' = infos
            /\ info_secs' = info_secs
            /\ comp_idx' = comp_idx
            /\ err' = ""]_vars

\* A stale sample, sent with force_compression, met a store of two or more
\* samples.
C3_Witness ==
    /\ op = "append"
    /\ state = "in-past"
    /\ arg.info.mono < infos[1].mono
    /\ arg.force
    /\ Len(infos) >= 2

\* C4: appending a sample whose time key equals that of infos[0] replaces
\* infos[0] by the new sample and changes nothing else, also when
\* force_compression is requested.
C4_OverwriteOnEqualKey ==
    [][(op' = "append" /\ infos # <<>> /\ arg'.info.mono = infos[1].mono)
         => /\ infos' = [infos EXCEPT ![1] = arg'.info]
            /\ info_secs' = info_secs
            /\ comp_idx' = comp_idx]_vars

\* A sample with the time key of the top, sent with force_compression,
\* overwrote the top of a store of two or more samples.
C4_Witness ==
    /\ op = "append"
    /\ Len(log) = 1
    /\ log[1].ev = "same"
    /\ arg.force
    /\ Len(infos) >= 2
    /\ infos[1] = arg.info

\* The steps of one append_info call lead from (secs0, idx0) to (secs1, idx1).
C5_Chained(L, secs0, idx0, secs1, idx1) ==
    IF L = <<>>
    THEN secs1 = secs0 /\ idx1 = idx0
    ELSE /\ L[1].secs = secs0 /\ L[1].idx = idx0
         /\ L[Len(L)].secs2 = secs1 /\ L[Len(L)].idx2 = idx1
         /\ \A k \in 1..(Len(L) - 1) :
               L[k + 1].secs = L[k].secs2 /\ L[k + 1].idx = L[k].idx2

\* One step changes info_secs only by the multiplier of its comp_idx, and
\* comp_idx only together with info_secs.
C5_StepOk(e) ==
    /\ e.secs2 >= e.secs
    /\ e.secs2 # e.secs
         => /\ e.secs2 = e.secs * COMPRESSION_MULTIPLIERS[(e.idx % 14) + 1]
            /\ e.idx2 = e.idx + 1
    /\ e.idx2 # e.idx => e.secs2 # e.secs

\* C5: info_secs never decreases; every change of info_secs multiplies it by
\* COMPRESSION_MULTIPLIERS[comp_idx mod 14] for the comp_idx before the change
\* and increments comp_idx by one; comp_idx never changes without info_secs
\* changing.
C5_CompressionMonotone ==
    [][op' = "append"
         => /\ info_secs' >= info_secs
            /\ C5_Chained(log', info_secs, comp_idx, info_secs', comp_idx')
            /\ \A k \in 1..Len(log') : C5_StepOk(log'[k])]_vars

\* One append_info call compressed the store twice.
C5_Witness ==
    /\ op = "append"
    /\ Cardinality({k \in 1..Len(log) : log[k].ev = "compress"}) = 2
    /\ comp_idx = 2

\* C6: the time key of infos[0] is the greatest time key ever passed to
\* append_info, and the stored time keys strictly decrease with the index.
C6_NewestAtHead ==
    infos # <<>>
      => /\ infos[1].mono = max_mono
         /\ \A i \in 1..(Len(infos) - 1) : infos[i].mono > infos[i + 1].mono

\* A stale sample met a compressed store of three or more samples.
C6_Witness ==
    /\ op = "append"
    /\ state = "in-past"
    /\ info_secs > 1
    /\ Len(infos) >= 3
    /\ infos[1].mono = max_mono

\* C7: after every append_info call that inserts a sample, no stored sample
\* has a time key smaller than that of infos[0] minus RETENTION_SEC.
C7_Retention ==
    (op = "append" /\ state \in {"grow", "hole-grow"})
      => \A i \in 1..Len(infos) :
            infos[i].mono >= infos[1].mono - RETENTION_SEC

\* C8: at info_secs = 1 and without compression, appending top + k (k >= 2)
\* makes the store grow by exactly k elements with the time keys top+1, ...,
\* top+k, the real sample at index 0, all older elements kept in order.
C8_GapFillAtQuantumOne ==
    [][(/\ op' = "append"
        /\ infos # <<>>
        /\ info_secs = 1
        /\ info_secs' = 1
        /\ arg'.info.mono >= infos[1].mono + 2)
         => LET k == arg'.info.mono - infos[1].mono
            IN  /\ Len(infos') = Len(infos) + k
                /\ infos'[1] = arg'.info
                /\ \A j \in 1..k : infos'[j].mono = infos[1].mono + k - j + 1
                /\ SubSeq(infos', k + 1, Len(infos')) = infos]_vars

\* A gap of two or more seconds was filled at info_secs = 1 without
\* compression, in a store that held samples before.
C8_Witness ==
    /\ op = "append"
    /\ state = "hole-grow"
    /\ info_secs = 1
    /\ comp_idx = 0
    /\ \E k \in 2..MaxGap :
          /\ Len(infos) >= k + 2
          /\ Len(log) = 2 * k - 1
          /\ infos[k + 1].mono = arg.info.mono - k

\* C9: every synthesized gap sample has the field values of the sample that
\* was infos[0] before the append, not those of the newly arriving sample.
C9_CarryForward ==
    [][(op' = "append" /\ infos # <<>>)
         => \A k \in 1..Len(log') :
               log'[k].ev = "fake" => log'[k].s.val = infos[1].val]_vars

\* C10: for a non-empty store and a column budget n >= 2, get_var_slices(n)
\* returns at most n samples, the last one infos[0], the first one the oldest
\* stored sample, with strictly increasing time keys.
C10_UniformBounds ==
    (op = "var" /\ infos # <<>> /\ arg.n >= 2)
      => /\ err = ""
         /\ slices # <<>>
         /\ Len(slices) <= arg.n
         /\ slices[Len(slices)] = infos[1]
         /\ slices[1] = infos[Len(infos)]
         /\ \A i \in 1..(Len(slices) - 1) : slices[i].mono < slices[i + 1].mono

\* A budget of three or more columns was spread over a store that holds at
\* least two samples more than the budget.
C10_Witness ==
    /\ op = "var"
    /\ arg.n >= 3
    /\ Len(infos) >= arg.n + 2
    /\ Len(slices) = arg.n

\* C11: get_var_slices(1) on a store of two or more samples raises no error
\* and returns exactly the one-element list [infos[0]].
C11_SingleColumn ==
    (op = "var" /\ arg.n = 1 /\ Len(infos) >= 2)
      => (err = "" /\ slices = <<infos[1]>>)

\* C20: a top-level append_info call returns True exactly when info_secs is
\* larger after the call than before it, compressions made while a gap is
\* filled included.
C20_ReturnsWhetherCompressed ==
    [][op' = "append" => (ret' <=> info_secs' > info_secs)]_vars

\* C12: on a non-empty store a get_fixed_slices call that returns, whatever
\* the column budget, the pin and the pending moves, returns at most
\* max_col_cnt samples, the last one infos[0], with strictly increasing time
\* keys.
C12_FixedShape ==
    (op = "fixed" /\ infos # <<>> /\ err = "")
      => /\ slices # <<>>
         /\ Len(slices) <= arg.n
         /\ slices[Len(slices)] = infos[1]
         /\ \A i \in 1..(Len(slices) - 1) : slices[i].mono < slices[i + 1].mono

\* C13: a get_fixed_slices call that follows a get_fixed_slices call with the
\* same interval_secs and max_col_cnt, is_mode_switch false, with no append
\* and no pan command in between, returns the same historical columns and
\* leaves the same pin.
C13_Stable ==
    [][(/\ op = "fixed" /\ err = "" /\ horizontal_moves = <<>>
        /\ op' = "fixed" /\ arg' = arg /\ ~arg.is_mode_switch)
         => /\ err' = ""
            /\ SubSeq(slices', 1, Len(slices') - 1)
                 = SubSeq(slices, 1, Len(slices) - 1)
            /\ tack' = tack]_vars

\* C14: a get_fixed_slices call with is_mode_switch true and no pending pan
\* command returns the columns a selector without a pin returns, whatever
\* pin was stored, and leaves the selector without a pin.
C14_ModeSwitchResets ==
    [][(op' = "fixed" /\ arg'.is_mode_switch /\ horizontal_moves = <<>>)
         => /\ err' = ""
            /\ tack' = None
            /\ slices' = get_fixed_slices(None, <<>>, infos, info_secs,
                                          arg'.interval_secs, arg'.n,
                                          TRUE).slices]_vars

\* C15: after a get_var_slices call the selector has no pin, and a
\* get_fixed_slices call applies none of the pan commands that were queued
\* while the uniform selection was on display.
C15_VarDiscards ==
    [][/\ op' = "var" => tack' = None
       /\ (op = "pan" /\ arg.n > 0 /\ op' = "fixed")
            => Len(call'.anchors) <= Len(horizontal_moves) - arg.n]_vars

\* C16: in a get_fixed_slices call the anchor after each pan command has a
\* time key between those of right_lower and right_upper as get_range_ns
\* computed them, and a command that pans to the left from right_lower, or
\* to the right from right_upper, leaves the anchor at that end.
C16_PanClamped ==
    (op = "fixed" /\ call.ranged)
      => \A k \in 1..Len(call.anchors) :
            /\ call.range_ns.right_lower.mono <= call.anchors[k].mono
            /\ call.anchors[k].mono <= call.range_ns.right_upper.mono
            /\ (/\ k > 1
                /\ call.anchors[k].move \in {"<", "{"}
                /\ call.anchors[k - 1].mono = call.range_ns.right_lower.mono)
                  => call.anchors[k].mono = call.range_ns.right_lower.mono
            /\ (/\ k > 1
                /\ call.anchors[k].move \in {">", "}"}
                /\ call.anchors[k - 1].mono = call.range_ns.right_upper.mono)
                  => call.anchors[k].mono = call.range_ns.right_upper.mono

\* C17: on an empty store get_var_slices and get_fixed_slices return the
\* empty list and raise nothing; on a store of one sample get_fixed_slices
\* returns [infos[0]].
C17_DegenerateStores ==
    /\ (op \in {"var", "fixed"} /\ infos = <<>>)
         => (err = "" /\ slices = <<>>)
    /\ (op = "fixed" /\ Len(infos) = 1)
         => (err = "" /\ slices = <<infos[1]>>)

\* get_fixed_slices ran on a store of one sample with pan commands pending.
C17_Witness ==
    /\ op = "fixed"
    /\ Len(infos) = 1
    /\ horizontal_moves # <<>>
    /\ slices = infos

\* C18: a get_fixed_slices call with an interval_secs that is a positive
\* multiple of info_secs raises nothing, whatever the store, the column
\* budget, the stored pin and the pending pan commands.
C18_NoFatalError == op = "fixed" => err = ""

\* C19: after legalize_report_interval, in the main loop and after the key
\* 'i', opts.report_interval is a key of report_intervals and is 'Var' or an
\* interval of at least info_secs seconds; in the main loop a fixed interval
\* below info_secs becomes the least interval of at least info_secs seconds;
\* and get_fixed_slices is not called with an interval_secs below info_secs.
C19_LegalInterval ==
    [][op' \in {"key", "var", "fixed"}
         => /\ report_interval' \in IntervalNames
            /\ \/ report_interval' = "Var"
               \/ IntervalSecs(report_interval') >= info_secs'
            /\ (/\ op' # "key"
                /\ report_interval \in IntervalNames \ {"Var"}
                /\ IntervalSecs(report_interval) < info_secs')
                  => \A i \in DOMAIN report_intervals :
                        report_intervals[i].secs >= info_secs'
                          => report_intervals[i].secs
                               >= IntervalSecs(report_interval')
            /\ op' = "fixed" => arg'.interval_secs >= info_secs']_vars

\* C21: in one top-level append_info call, whatever gap it fills, info_secs
\* is multiplied at most once and comp_idx grows by at most one.
C21_CompressedOnce ==
    [][op' = "append"
         => /\ info_secs' \in {info_secs, info_secs * Factor(comp_idx)}
            /\ comp_idx' <= comp_idx + 1]_vars

\* C22: in a top-level append_info call that fills a gap, every synthesized
\* gap sample is put into the store before any pruning or compression step
\* of that call: no prune or compress step is followed by a gap sample.
C22_GapFilledFirst ==
    op = "append"
      => \A i, j \in 1..Len(log) :
            (i < j /\ log[i].ev \in {"prune", "compress"})
              => log[j].ev \notin {"fake", "retime"}

\* The elements of s at the indices 0, f, 2f, ... in the order of s.
C23_EveryNth(s, f) == [k \in 1..((Len(s) - 1) \div f + 1) |-> s[(k - 1) * f + 1]]

\* C23: when an append_info call with no gap and no pruning inserts its
\* sample and compresses with factor f, the store afterwards is exactly the
\* elements at indices 0, f, 2f, ... of the sequence that was compressed, at
\* every quantum and whatever the time key of the first stored sample.
C23_CompressionStride ==
    [][(/\ op' = "append"
        /\ Len(log') = 2
        /\ log'[1].ev = "insert"
        /\ log'[2].ev = "compress")
         => infos' = C23_EveryNth(<<arg'.info>> \o infos, Factor(comp_idx))]_vars

\* C24: get_var_slices returns the whole store oldest-first when
\* len(infos) <= max_col_cnt; otherwise, for max_col_cnt >= 2, its k-th
\* collected sample (k = 0..max_col_cnt-1, before the reversal) is
\* infos[round(k * (len(infos)-1) / (max_col_cnt-1))].
C24_UniformIndexChoice ==
    (op = "var" /\ err = "")
      => IF Len(infos) <= arg.n
         THEN slices = Reverse(infos)
         ELSE arg.n >= 2
                => slices = Reverse([k \in 1..arg.n |->
                      infos[RoundHalfEven((k - 1) * (Len(infos) - 1),
                                          arg.n - 1) + 1]])

\* The greatest multiple of interval_secs strictly less than mono.
C25_BoundaryBelow(mono, interval_secs) ==
    ((mono - 1) \div interval_secs) * interval_secs

\* C25: get_fixed_slices with no pin, no pending pan command and
\* max_col_cnt >= 2, on a store built by appends advancing by exactly one
\* second, returns as the column just before the live column the stored
\* sample whose time key is the greatest multiple of interval_secs strictly
\* less than the live sample's time key, whenever the store holds it.
C25_LiveAligned ==
    [][(/\ op' = "fixed"
        /\ tack = None
        /\ horizontal_moves = <<>>
        /\ arg'.n >= 2
        /\ \E i \in 2..Len(infos) :
              infos[i].mono = C25_BoundaryBelow(infos[1].mono,
                                                arg'.interval_secs))
         => /\ err' = ""
            /\ Len(slices') >= 2
            /\ slices'[Len(slices') - 1].mono
                 = C25_BoundaryBelow(infos[1].mono, arg'.interval_secs)]_vars

\* A selection with no pin on a compressed store, with an interval_secs
\* larger than info_secs, showed the boundary below the live sample.
C25_Witness ==
    /\ op = "fixed"
    /\ err = ""
    /\ info_secs > 1
    /\ arg.n >= 2
    /\ Len(slices) >= 2
    /\ arg.interval_secs > info_secs
    /\ slices[Len(slices) - 1].mono
         = C25_BoundaryBelow(infos[1].mono, arg.interval_secs)

\* C26: after every get_fixed_slices call that returns on a store of two or
\* more samples, self.tack is None exactly when the anchor of the returned
\* columns is the rightmost historical slot, and otherwise self.tack holds
\* the index and the time key of that anchor.
C26_LiveOrPinned ==
    (op = "fixed" /\ Len(infos) >= 2 /\ err = "")
      => IF call.anchor.idx = call.range_ns.right_upper.idx
         THEN tack = None
         ELSE tack = Pinned(call.anchor)

\* C27: after every get_fixed_slices call, whatever the size of the store
\* (0 and 1 included), horizontal_moves is empty: every pan command queued
\* before the call was removed by it.
C27_QueueConsumed == op = "fixed" => horizontal_moves = <<>>

\* The anchor a get_fixed_slices call starts from before it applies the
\* queued commands: the rightmost historical column, or the stored pin made
\* legal for the range.
C28_Start(range_ns, interval_secs) ==
    IF tack.pinned THEN legal_tack(tack, range_ns, infos, interval_secs)
    ELSE range_ns.right_upper

\* The call about to be made reads a store of two or more samples and
\* resolves its starting anchor without an exception.
C28_Resolves(range_ns, interval_secs) ==
    /\ Len(infos) >= 2
    /\ tack.pinned => ~LegalTackRaises(tack, range_ns, infos, interval_secs)

\* C28: on a gap-free store one '<' applied to an anchor with time key M at
\* least one interval newer than the leftmost legal position yields the
\* anchor with time key M - interval_secs and an index larger by
\* interval_secs // info_secs; one '>' applied to an anchor at least one
\* interval older than the rightmost legal position yields the time key
\* M + interval_secs; '<' followed by '>' restores the anchor and the pin.
C28_SingleStep ==
    [][op' = "fixed" /\ call'.ranged
         => LET range_ns == call'.range_ns
                interval_secs == arg'.interval_secs
                start == C28_Start(range_ns, interval_secs)
            IN  C28_Resolves(range_ns, interval_secs)
                  => /\ (/\ horizontal_moves = <<"<">>
                         /\ start.mono - interval_secs
                              >= range_ns.right_lower.mono)
                          => /\ err' = ""
                             /\ call'.anchor
                                  = get_col_ns(start.idx + range_ns.idx_step_by,
                                               start.mono - interval_secs)
                     /\ (/\ horizontal_moves = <<">">>
                         /\ start.mono + interval_secs
                              <= range_ns.right_upper.mono)
                          => /\ err' = ""
                             /\ call'.anchor.mono = start.mono + interval_secs
                     /\ (/\ horizontal_moves = <<"<", ">">>
                         /\ start.mono - interval_secs
                              >= range_ns.right_lower.mono)
                          => /\ err' = ""
                             /\ call'.anchor = start
                             /\ tack' = IF start.idx = range_ns.right_upper.idx
                                        THEN None ELSE Pinned(start)]_vars

\* C29: in the list a get_fixed_slices call returns for a store of two or
\* more samples, every historical column has a time key that is a multiple
\* of interval_secs, adjacent historical columns are exactly interval_secs
\* apart, and the pin the call stores holds the time key of the sample at
\* the index it holds.
C29_ColumnSpacing ==
    (op = "fixed" /\ err = "" /\ Len(infos) >= 2)
      => /\ \A i \in 1..(Len(slices) - 1) :
               slices[i].mono % arg.interval_secs = 0
         /\ \A i \in 1..(Len(slices) - 2) :
               slices[i + 1].mono - slices[i].mono = arg.interval_secs
         /\ tack.pinned
              => /\ tack.idx >= 0
                 /\ tack.idx < Len(infos)
                 /\ infos[tack.idx + 1].mono = tack.mono

\* C30: a selector pinned at the time key M by a get_fixed_slices call,
\* after appends of consecutive seconds only (with or without a compression
\* to a quantum that still divides interval_secs) and a get_fixed_slices
\* call with the same interval_secs and max_col_cnt and no pan command,
\* still shows the sample with time key M as the column before the live
\* column and is still pinned at M, as long as a sample with time key M is
\* stored and M lies inside the legal range.
C30_PinnedStaysPut ==
    [][(/\ op' = "fixed"
        /\ tack.pinned
        /\ horizontal_moves = <<>>
        /\ call.ranged
        /\ tack = Pinned(call.anchor)
        /\ call'.ranged
        /\ arg'.interval_secs = call.interval_secs
        /\ arg'.n = call.max_col_cnt
        /\ arg'.n >= 2
        /\ \E i \in 2..Len(infos) : infos[i].mono = tack.mono
        /\ tack.mono >= call'.range_ns.right_lower.mono
        /\ tack.mono <= call'.range_ns.right_upper.mono)
         => /\ err' = ""
            /\ Len(slices') >= 2
            /\ slices'[Len(slices') - 1].mono = tack.mono
            /\ tack'.pinned
            /\ tack'.mono = tack.mono]_vars

\* After the append that compressed the store to the quantum 30, a selection
\* with no pan command showed the pinned sample before the live column.
C30_Witness ==
    /\ op = "fixed"
    /\ err = ""
    /\ call.anchors = <<>>
    /\ tack.pinned
    /\ info_secs = 30
    /\ call.interval_secs = 30
    /\ \E k \in 1..Len(log) : log[k].ev = "compress"
    /\ Len(slices) >= 2
    /\ slices[Len(slices) - 1].mono = tack.mono

\* C31: an append_info call never changes the time key or a field of a
\* sample that is already stored: no step of the call rewrites the time key
\* of infos[0], and every sample below infos[0] afterwards is a sample that
\* was stored before the call or a sample the call inserted.
C31_StoredImmutable ==
    [][op' = "append"
         => /\ \A k \in 1..Len(log') : log'[k].ev # "retime"
            /\ \A i \in 2..Len(infos') :
                  \/ \E j \in 1..Len(infos) : infos'[i] = infos[j]
                  \/ \E k \in 1..Len(log') :
                        /\ log'[k].ev \in {"insert", "overwrite", "same"}
                        /\ log'[k].s = infos'[i]]_vars

\* C32: an append_info call without force_compression for the first sample,
\* or for the second after the top, on a store of fewer than MAX_INFOS
\* samples that was never compressed puts the sample on top and leaves
\* every other sample, info_secs and comp_idx = 0 as they were, so n <=
\* MAX_INFOS consecutive appends leave exactly those n samples; and no call
\* without force_compression compresses a store that does not hold more
\* than MAX_INFOS samples after the insertion and the pruning.
C32_NoCompressionBelowCapacity ==
    [][(op' = "append" /\ ~arg'.force)
         => /\ (/\ info_secs = initial_sample_secs
                /\ comp_idx = 0
                /\ Len(infos) < MAX_INFOS
                /\ infos # <<>> => arg'.info.mono = infos[1].mono + 1)
                 => /\ infos' = <<arg'.info>> \o infos
                    /\ info_secs' = initial_sample_secs
                    /\ comp_idx' = 0
            /\ \A k \in 1..Len(log') :
                  log'[k].ev = "compress" => log'[k].n > MAX_INFOS
            /\ info_secs' # info_secs
                 => \E k \in 1..Len(log') : log'[k].ev = "compress"]_vars

\* MAX_INFOS samples of consecutive seconds were appended to the empty
\* store without force_compression and the store is not compressed.
C32_Witness ==
    /\ op = "append"
    /\ ~arg.force
    /\ Len(infos) = MAX_INFOS
    /\ info_secs = initial_sample_secs
    /\ comp_idx = 0
    /\ \A i \in 1..(Len(infos) - 1) : infos[i].mono = infos[i + 1].mono + 1

\* The number of stored samples at the rightmost historical slot and at
\* whole intervals to its left.
C33_Reachable(range_ns) ==
    IF range_ns.right_upper.idx >= Len(infos) THEN 0
    ELSE (Len(infos) - 1 - range_ns.right_upper.idx) \div range_ns.idx_step_by + 1

\* C33: in a get_fixed_slices call with max_col_cnt >= 2 on a store of two
\* or more samples the leftmost legal anchor index is an index of the store,
\* and after one '[' command on a store that holds at least max_col_cnt - 1
\* samples at interval-aligned positions the call returns exactly
\* max_col_cnt - 1 historical columns and the live column.
C33_LeftmostFull ==
    (op = "fixed" /\ call.ranged /\ arg.n >= 2)
      => /\ call.range_ns.right_lower.idx < Len(infos)
         /\ (/\ Len(call.anchors) = 1
             /\ call.anchors[1].move = "["
             /\ C33_Reachable(call.range_ns) >= arg.n - 1)
              => (err = "" /\ Len(slices) = arg.n)

\* C34: when every append has the time key of the stored top or the next
\* second, after every append each sample below infos[0] has a time key
\* that is a multiple of info_secs once info_secs > 1, neighbours below
\* infos[0] are exactly info_secs apart, and infos[0] is at least 1 and at
\* most info_secs newer than the sample below it.
C34_BucketAligned ==
    op = "append"
      => /\ info_secs > 1
              => \A i \in 2..Len(infos) : infos[i].mono % info_secs = 0
         /\ \A i \in 2..(Len(infos) - 1) :
               infos[i].mono - infos[i + 1].mono = info_secs
         /\ Len(infos) >= 2
              => /\ infos[1].mono - infos[2].mono >= 1
                 /\ infos[1].mono - infos[2].mono <= info_secs

\* A store compressed twice holds three or more samples.
C34_Witness ==
    /\ op = "append"
    /\ comp_idx >= 2
    /\ Len(infos) >= 3

\* C35: after an append_info call that skips ahead (time key > top + 1) on a
\* store with info_secs > 1, every multiple of info_secs between the oldest
\* stored time key and the time key of infos[0] is the time key of exactly
\* one stored sample.
C35_NoLostBucket ==
    [][(/\ op' = "append"
        /\ infos # <<>>
        /\ info_secs > 1
        /\ arg'.info.mono > infos[1].mono + 1)
         => \A m \in infos'[Len(infos')].mono..infos'[1].mono :
               m % info_secs' = 0
                 => Cardinality({i \in 1..Len(infos') : infos'[i].mono = m}) = 1]_vars

\* C36: in the main loop with the clock advancing by one second, a request
\* of the key 'C' stays set, and the store uncompressed, through every pass
\* whose append_info call returns False; the pass whose call returns True
\* multiplies info_secs by one factor in one compression and clears the
\* request; a pass without a request passes no force_compression and
\* compresses only a store of more than MAX_INFOS samples; and every request
\* is followed by a pass that compresses and clears it.
C36_ForcedOnce ==
    /\ [][/\ (force_compression /\ force_compression')
              => /\ info_secs' = info_secs
                 /\ comp_idx' = comp_idx
                 /\ (op' = "var" => arg'.force /\ ~ret')
          /\ (force_compression /\ ~force_compression')
              => /\ op' = "var"
                 /\ arg'.force
                 /\ ret'
                 /\ info_secs' = info_secs * Factor(comp_idx)
                 /\ comp_idx' = comp_idx + 1
                 /\ Cardinality({k \in 1..Len(log') :
                                    log'[k].ev = "compress"}) = 1
          /\ (~force_compression /\ op' = "var")
              => /\ ~arg'.force
                 /\ ~force_compression'
                 /\ \A k \in 1..Len(log') :
                       log'[k].ev = "compress" => log'[k].n > MAX_INFOS]_vars
    /\ force_compression ~> (op = "var" /\ arg.force /\ ret /\ ~force_compression)

\* The second request of the key 'C' was honoured by a pass that compressed
\* a store of no more than MAX_INFOS samples.
C36_Witness ==
    /\ op = "var"
    /\ arg.force
    /\ ret
    /\ ~force_compression
    /\ comp_idx = MaxForced
    /\ \A k \in 1..Len(log) : log[k].ev = "compress" => log[k].n <= MAX_INFOS

\* C37: a selection call, get_var_slices or get_fixed_slices of the packaged
\* selector or get_var_slices or _get_fixed_slices of the stand-alone
\* selector, leaves the store as it was: the same samples in the same order
\* with the same time keys, the same info_secs and the same comp_idx.
C37_SelectionKeepsStore ==
    [][op' \in {"var", "fixed", "alone_var", "alone_fixed"}
         => /\ infos' = infos
            /\ info_secs' = info_secs
            /\ comp_idx' = comp_idx]_vars

\* C38: after every _append_info call of the stand-alone store, under
\* appends with non-decreasing time keys, the bucket number
\* int(round(infos[0]['_mono'])) // info_secs of the newest stored sample is
\* info_base_num + len(infos) - 1, and the store holds no more than MAX_INFOS
\* samples.
C38_BucketBookkeeping ==
    (op = "alone_append" /\ infos # <<>>)
        => /\ info_base_num + Len(infos) - 1
                = _get_info_nums(StoreAlone, infos[1])[2]
           /\ Len(infos) <= MAX_INFOS_ALONE

\* The time keys, in seconds, of the last samples of the buckets of
\* interval_samples samples that are complete at the second t, the oldest
\* first.
C39_Completed(t, interval_samples) ==
    [k \in 1..(t \div interval_samples) |-> k * interval_samples - 1]

\* The last n elements of the sequence s, all of them if it has fewer.
C39_Last(s, n) == SubSeq(s, Max(1, Len(s) - n + 1), Len(s))

\* C39: in the demo, with one sample per second from t = 1 and
\* interval_samples = 5, the columns after the pass of the second t are the
\* last samples of the completed buckets (t = 4, t = 9, ...), as many of the
\* newest of them as max_col_cnt - 1 allows, and the live sample: [live] for
\* t = 1..4, [t=4, live] from t = 5, [t=4, t=9, t=10] at t = 10.
C39_StableColumns ==
    op = "demo"
        => LET t == infos[1].mono \div TicksPerSec
           IN  [i \in 1..Len(slices) |-> slices[i].mono]
                 = [i \in 1..Len(C39_Last(C39_Completed(t, arg.interval_samples), arg.n - 1)) |->
                      C39_Last(C39_Completed(t, arg.interval_samples), arg.n - 1)[i] * TicksPerSec]
                   \o <<infos[1].mono>>

====
